---- MODULE Spec2Model ----
(***************************************************************************)
(* Model of the nrau contest-log tools.                                    *)
(*                                                                         *)
(*   qso_diff_analyzer.py   extract_qsos, parse_qso, compare_qsos and the  *)
(*                          __main__ block, as one sequential process.     *)
(*   qrz_callsign_checker.py  QRZChecker.login / lookup_callsign, as a     *)
(*                          call stack talking to a nondeterministic       *)
(*                          server.                                        *)
(*                                                                         *)
(* Text is a sequence of one-character strings; strip, startswith and      *)
(* split are computed character by character.                              *)
(***************************************************************************)
EXTENDS Integers, Sequences, FiniteSets, TLC

\* ------------------------------------------------------------------------
\* Bounds of the model
\* ------------------------------------------------------------------------
\* Most lines a log file holds.
MaxLines == 2
\* Deepest nesting of lookup_callsign frames the interpreter allows.
RecursionLimit == 4

\* ------------------------------------------------------------------------
\* Program constants
\* ------------------------------------------------------------------------
\* parse_qso: len(parts) >= 13
MinTokens == 13
\* __main__: len(sys.argv) != 3
ArgvLen == 3

\* ------------------------------------------------------------------------
\* Strings (str.strip, str.startswith, str.split)
\* ------------------------------------------------------------------------
IsSpace(c) == c \in {" ", "\t", "\n"}

RECURSIVE LStrip(_)
LStrip(s) ==
  IF s = <<>> THEN <<>>
  ELSE IF IsSpace(Head(s)) THEN LStrip(Tail(s)) ELSE s

RECURSIVE RStrip(_)
RStrip(s) ==
  IF s = <<>> THEN <<>>
  ELSE IF IsSpace(s[Len(s)]) THEN RStrip(SubSeq(s, 1, Len(s) - 1)) ELSE s

\* line.strip()
Strip(s) == RStrip(LStrip(s))

\* s.startswith(p)
StartsWith(s, p) == Len(s) >= Len(p) /\ SubSeq(s, 1, Len(p)) = p

RECURSIVE TakeWord(_)
TakeWord(s) ==
  IF s = <<>> \/ IsSpace(Head(s)) THEN <<>>
  ELSE <<Head(s)>> \o TakeWord(Tail(s))

RECURSIVE DropWord(_)
DropWord(s) ==
  IF s = <<>> \/ IsSpace(Head(s)) THEN s ELSE DropWord(Tail(s))

\* qso_line.split(): tokens separated by runs of whitespace
RECURSIVE Split(_)
Split(s) ==
  LET t == LStrip(s)
  IN  IF t = <<>> THEN <<>> ELSE <<TakeWord(t)>> \o Split(DropWord(t))

\* The marker tested by extract_qsos.
QSOMarker == <<"Q", "S", "O", ":">>

\* ------------------------------------------------------------------------
\* extract_qsos(filename): the (line_num, stripped line) pairs of the lines
\* that start with 'QSO:' once stripped, in file order.
\* ------------------------------------------------------------------------
\* `for line_num, line in enumerate(f, 1)`: line line_num of the file as the
\* iteration yields it, line terminator included.
ReadLine(lines, line_num) == lines[line_num] \o <<"\n">>

\* Variant: the line is tested stripped but stored as read.
RECURSIVE ExtractFrom_StoreRaw(_, _)
ExtractFrom_StoreRaw(lines, line_num) ==
  IF line_num > Len(lines) THEN <<>>
  ELSE LET line == Strip(ReadLine(lines, line_num))
       IN  (IF StartsWith(line, QSOMarker)
            THEN << <<line_num, ReadLine(lines, line_num)>> >> ELSE <<>>)
           \o ExtractFrom_StoreRaw(lines, line_num + 1)

RECURSIVE ExtractFrom(_, _)
ExtractFrom(lines, line_num) ==
  IF line_num > Len(lines) THEN <<>>
  ELSE LET line == Strip(ReadLine(lines, line_num))
       IN  (IF StartsWith(line, QSOMarker) THEN << <<line_num, line>> >> ELSE <<>>)
           \o ExtractFrom(lines, line_num + 1)

extract_qsos(lines) == ExtractFrom(lines, 1)

\* ------------------------------------------------------------------------
\* parse_qso(qso_line)
\* ------------------------------------------------------------------------
None == [none |-> TRUE]

\* Key order of the dict parse_qso builds (iteration order of `for field in
\* orig_parsed`).
FieldOrder ==
  <<"freq", "mode", "date", "time", "mycall", "rst_sent", "seq_sent",
    "my_region", "other_call", "rst_rcvd", "seq_rcvd", "other_region">>

\* Variant: more than 13 tokens are required.
parse_qso_Strict(qso_line) ==
  LET parts == Split(qso_line)
  IN  IF Len(parts) > MinTokens
      THEN [freq         |-> parts[2],
            mode         |-> parts[3],
            date         |-> parts[4],
            time         |-> parts[5],
            mycall       |-> parts[6],
            rst_sent     |-> parts[7],
            seq_sent     |-> parts[8],
            my_region    |-> parts[9],
            other_call   |-> parts[10],
            rst_rcvd     |-> parts[11],
            seq_rcvd     |-> parts[12],
            other_region |-> parts[13]]
      ELSE None

\* Variant: the fields are read one token early (parts[0] taken as freq).
parse_qso_OffByOne(qso_line) ==
  LET parts == Split(qso_line)
  IN  IF Len(parts) >= MinTokens
      THEN [freq         |-> parts[1],
            mode         |-> parts[2],
            date         |-> parts[3],
            time         |-> parts[4],
            mycall       |-> parts[5],
            rst_sent     |-> parts[6],
            seq_sent     |-> parts[7],
            my_region    |-> parts[8],
            other_call   |-> parts[9],
            rst_rcvd     |-> parts[10],
            seq_rcvd     |-> parts[11],
            other_region |-> parts[12]]
      ELSE None

\* parts[k] of the source is parts[k + 1] here (sequences start at 1).
parse_qso(qso_line) ==
  LET parts == Split(qso_line)
  IN  IF Len(parts) >= MinTokens
      THEN [freq         |-> parts[2],
            mode         |-> parts[3],
            date         |-> parts[4],
            time         |-> parts[5],
            mycall       |-> parts[6],
            rst_sent     |-> parts[7],
            seq_sent     |-> parts[8],
            my_region    |-> parts[9],
            other_call   |-> parts[10],
            rst_rcvd     |-> parts[11],
            seq_rcvd     |-> parts[12],
            other_region |-> parts[13]]
      ELSE None

\* Variant: two records count as different when their parsed fields differ.
RecordsDiffer_ByFields(orig_qso, new_qso) == parse_qso(orig_qso) # parse_qso(new_qso)

\* if orig_qso != new_qso
RecordsDiffer(orig_qso, new_qso) == orig_qso # new_qso

\* Truth value of a parse result: None is false, a 12-key dict is true.
Truthy(p) == p # None

\* The changes list of a Modified block: one (field, old, new) per field
\* whose values differ, in dict order.
RECURSIVE ChangesFrom(_, _, _)
ChangesFrom(orig_parsed_, new_parsed_, k) ==
  IF k > Len(FieldOrder) THEN <<>>
  ELSE LET field == FieldOrder[k]
       IN  (IF orig_parsed_[field] # new_parsed_[field]
            THEN << <<field, orig_parsed_[field], new_parsed_[field]>> >>
            ELSE <<>>)
           \o ChangesFrom(orig_parsed_, new_parsed_, k + 1)

\* Variant: the field loop stops at the first difference.
FieldChanges_FirstOnly(orig_parsed_, new_parsed_) ==
  IF Truthy(orig_parsed_) /\ Truthy(new_parsed_)
  THEN LET all == ChangesFrom(orig_parsed_, new_parsed_, 1)
       IN  IF all = <<>> THEN <<>> ELSE <<all[1]>>
  ELSE <<>>

FieldChanges(orig_parsed_, new_parsed_) ==
  IF Truthy(orig_parsed_) /\ Truthy(new_parsed_)
  THEN ChangesFrom(orig_parsed_, new_parsed_, 1)
  ELSE <<>>

\* ------------------------------------------------------------------------
\* Input files the model runs on
\* ------------------------------------------------------------------------
RECURSIVE Join(_, _)
Join(tokens, sep) ==
  IF tokens = <<>> THEN <<>>
  ELSE IF Len(tokens) = 1 THEN tokens[1]
  ELSE tokens[1] \o sep \o Join(Tail(tokens), sep)

QsoLine(fields, sep) == QSOMarker \o sep \o Join(fields, sep)

BaseFields == [k \in 1..12 |-> <<"a">>]

\* fields with the tokens at the positions in K replaced (token 0 is the
\* 'QSO:' keyword, so field k is token k).
Alter(fields, K) ==
  [k \in 1..Len(fields) |-> IF k \in K THEN <<"b">> ELSE fields[k]]

LineBase    == QsoLine(BaseFields, <<" ">>)
LineTok5    == QsoLine(Alter(BaseFields, {5}), <<" ">>)
LineTok6    == QsoLine(Alter(BaseFields, {6}), <<" ">>)
LineEnds    == QsoLine(Alter(BaseFields, {1, 12}), <<" ">>)
LineSpaced  == QsoLine(BaseFields, <<" ", " ">>)
LineExtra   == QsoLine(BaseFields \o << <<"x">> >>, <<" ">>)
LineShort   == QsoLine(SubSeq(BaseFields, 1, 11), <<" ">>)
LineComment == <<"#">>

\* Lines of an original revision, and the lines a revised revision may hold
\* instead (every spelling of the base record the diff has to tell apart).
OrigLines == {LineBase, LineShort, LineComment}

RevLines ==
  {LineBase, LineTok5, LineTok6, LineEnds, LineSpaced, LineExtra, LineShort,
   LineComment}

\* Short lines that exercise the line filter of extract_qsos.
ExtractLines ==
  { QSOMarker \o <<" ", "a">>,
    <<" ">> \o QSOMarker \o <<" ", "a", " ">>,
    <<"\t">> \o QSOMarker \o <<"b">>,
    <<"q", "s", "o", ":", " ", "a">>,
    <<"#", " ", "Q", "S", "O", ":">>,
    <<" ">> }

\* All files of at most MaxLines lines over a set of lines.
FilesOver(lines) == UNION {[1..n -> lines] : n \in 0..MaxLines}

Rev0Path    == "rev_0.log"
Rev4Path    == "rev_4.log"
MissingPath == "missing.log"

\* Command lines: argv[1] is the script name (sys.argv[0]).
ArgvSet ==
  { <<"qso_diff_analyzer.py">>,
    <<"qso_diff_analyzer.py", Rev0Path>>,
    <<"qso_diff_analyzer.py", Rev0Path, Rev4Path>>,
    <<"qso_diff_analyzer.py", MissingPath, Rev4Path>>,
    <<"qso_diff_analyzer.py", Rev0Path, MissingPath>>,
    <<"qso_diff_analyzer.py", Rev0Path, Rev4Path, Rev4Path>> }

\* ------------------------------------------------------------------------
\* State
\* ------------------------------------------------------------------------
VARIABLES
  argv,             \* sys.argv
  fs,               \* readable files: path -> lines, without terminators
  pc,               \* position of the diff process
  rev0_qsos,        \* compare_qsos locals
  rev4_qsos,
  amendment_count,
  i,
  orig_parsed,
  new_parsed,
  stdout,           \* what print() wrote, block by block
  stderr,
  exit_code,        \* process exit status, NotExited while running
  session_key,      \* QRZChecker.session_key
  stack,            \* lookup_callsign frames, innermost last
  qpc,              \* position of the innermost checker frame
  result,           \* value returned by the top-level lookup_callsign
  relogins,           \* re-logins made during the current top-level call
  lookups           \* lookup requests sent during the current top-level call

diffVars ==
  <<argv, fs, pc, rev0_qsos, rev4_qsos, amendment_count, i, orig_parsed,
    new_parsed, stdout, stderr, exit_code>>

qrzVars == <<session_key, stack, qpc, result, relogins, lookups>>

vars == <<diffVars, qrzVars>>

NotExited == 0 - 1
Unset == [unset |-> TRUE]
NoRecord == <<0, <<>>>>

\* One block of output. kind is "usage", "banner", "amendment" or "total";
\* an amendment carries its label, its number, the two (line, text) records
\* and the changes list; index is the loop index that produced it.
Block(kind, label, num, orig, new, changes, index) ==
  [kind |-> kind, label |-> label, num |-> num, orig |-> orig, new |-> new,
   changes |-> changes, index |-> index]

SimpleBlock(kind, num) == Block(kind, "", num, NoRecord, NoRecord, <<>>, 0 - 1)

Max(a, b) == IF a >= b THEN a ELSE b

QrzIdle ==
  /\ session_key = None
  /\ stack = <<>>
  /\ qpc = "idle"
  /\ result = Unset
  /\ relogins = 0
  /\ lookups = 0

DiffStart(lines0, lines4) ==
  /\ argv \in ArgvSet
  /\ \E f0 \in FilesOver(lines0), f4 \in FilesOver(lines4) :
       fs = (Rev0Path :> f0) @@ (Rev4Path :> f4)
  /\ pc = "main"
  /\ rev0_qsos = <<>>
  /\ rev4_qsos = <<>>
  /\ amendment_count = 0
  /\ i = 0
  /\ orig_parsed = Unset
  /\ new_parsed = Unset
  /\ stdout = <<>>
  /\ stderr = <<>>
  /\ exit_code = NotExited

Init == DiffStart(OrigLines, RevLines) /\ QrzIdle

InitExtract == DiffStart(ExtractLines, ExtractLines) /\ QrzIdle

\* ------------------------------------------------------------------------
\* qso_diff_analyzer.py: __main__ and compare_qsos
\* ------------------------------------------------------------------------
\* Variant: the usage branch exits with status 0.
MainUsage_ExitZero ==
  /\ pc = "main"
  /\ Len(argv) # ArgvLen
  /\ stdout' = Append(stdout, SimpleBlock("usage", 0))
  /\ exit_code' = 0
  /\ pc' = "done"
  /\ UNCHANGED <<argv, fs, rev0_qsos, rev4_qsos, amendment_count, i,
                 orig_parsed, new_parsed, stderr, qrzVars>>

\* len(sys.argv) != 3: print the usage line and sys.exit(1).
MainUsage ==
  /\ pc = "main"
  /\ Len(argv) # ArgvLen
  /\ stdout' = Append(stdout, SimpleBlock("usage", 0))
  /\ exit_code' = 1
  /\ pc' = "done"
  /\ UNCHANGED <<argv, fs, rev0_qsos, rev4_qsos, amendment_count, i,
                 orig_parsed, new_parsed, stderr, qrzVars>>

\* compare_qsos(sys.argv[1], sys.argv[2]) is entered.
MainCall ==
  /\ pc = "main"
  /\ Len(argv) = ArgvLen
  /\ pc' = "extract0"
  /\ UNCHANGED <<argv, fs, rev0_qsos, rev4_qsos, amendment_count, i,
                 orig_parsed, new_parsed, stdout, stderr, exit_code, qrzVars>>

\* open() raises and nothing catches it: traceback on stderr, exit status 1.
Uncaught ==
  /\ stderr' = Append(stderr, SimpleBlock("traceback", 0))
  /\ exit_code' = 1
  /\ pc' = "done"

\* rev0_qsos = extract_qsos(rev0_file)
Extract0 ==
  /\ pc = "extract0"
  /\ IF argv[2] \in DOMAIN fs
     THEN /\ rev0_qsos' = extract_qsos(fs[argv[2]])
          /\ pc' = "extract4"
          /\ UNCHANGED <<stderr, exit_code>>
     ELSE /\ Uncaught
          /\ UNCHANGED rev0_qsos
  /\ UNCHANGED <<argv, fs, rev4_qsos, amendment_count, i, orig_parsed,
                 new_parsed, stdout, qrzVars>>

\* Variant: the banner is printed before the revised file is opened.
Extract4_BannerFirst ==
  /\ pc = "extract4"
  /\ stdout' = Append(stdout, SimpleBlock("banner", 0))
  /\ IF argv[3] \in DOMAIN fs
     THEN /\ rev4_qsos' = extract_qsos(fs[argv[3]])
          /\ pc' = "banner"
          /\ UNCHANGED <<stderr, exit_code>>
     ELSE /\ Uncaught
          /\ UNCHANGED rev4_qsos
  /\ UNCHANGED <<argv, fs, rev0_qsos, amendment_count, i, orig_parsed,
                 new_parsed, qrzVars>>

\* rev4_qsos = extract_qsos(rev4_file)
Extract4 ==
  /\ pc = "extract4"
  /\ IF argv[3] \in DOMAIN fs
     THEN /\ rev4_qsos' = extract_qsos(fs[argv[3]])
          /\ pc' = "banner"
          /\ UNCHANGED <<stderr, exit_code>>
     ELSE /\ Uncaught
          /\ UNCHANGED rev4_qsos
  /\ UNCHANGED <<argv, fs, rev0_qsos, amendment_count, i, orig_parsed,
                 new_parsed, stdout, qrzVars>>

\* The three banner prints, amendment_count = 0, and the loop is entered.
Banner ==
  /\ pc = "banner"
  /\ stdout' = Append(stdout, SimpleBlock("banner", 0))
  /\ amendment_count' = 0
  /\ i' = 0
  /\ pc' = "loop"
  /\ UNCHANGED <<argv, fs, rev0_qsos, rev4_qsos, orig_parsed, new_parsed,
                 stderr, exit_code, qrzVars>>

\* Variant: the loop runs over the original records only.
max_len_Orig == Len(rev0_qsos)

max_len == Max(Len(rev0_qsos), Len(rev4_qsos))

\* Loop body, i < len(rev0_qsos) and i < len(rev4_qsos).
\* rev0_qsos[i] of the source is rev0_qsos[i + 1] here.
LoopBoth ==
  /\ pc = "loop"
  /\ i < max_len
  /\ i < Len(rev0_qsos) /\ i < Len(rev4_qsos)
  /\ LET orig_qso == rev0_qsos[i + 1][2]
         new_qso  == rev4_qsos[i + 1][2]
         op == parse_qso(orig_qso)
         np == parse_qso(new_qso)
     IN  IF RecordsDiffer(orig_qso, new_qso)
         THEN /\ amendment_count' = amendment_count + 1
              /\ orig_parsed' = op
              /\ new_parsed' = np
              /\ stdout' = Append(stdout,
                             Block("amendment", "MODIFIED", amendment_count + 1,
                                   rev0_qsos[i + 1], rev4_qsos[i + 1],
                                   FieldChanges(op, np), i))
         ELSE UNCHANGED <<amendment_count, orig_parsed, new_parsed, stdout>>
  /\ i' = i + 1
  /\ UNCHANGED <<argv, fs, pc, rev0_qsos, rev4_qsos, stderr, exit_code, qrzVars>>

\* Variant: the removed branch does not advance the counter.
LoopRemoved_NoCount ==
  /\ pc = "loop"
  /\ i < max_len
  /\ ~(i < Len(rev0_qsos) /\ i < Len(rev4_qsos))
  /\ i < Len(rev0_qsos)
  /\ stdout' = Append(stdout,
                 Block("amendment", "REMOVED", amendment_count,
                       rev0_qsos[i + 1], NoRecord, <<>>, i))
  /\ i' = i + 1
  /\ UNCHANGED <<argv, fs, pc, rev0_qsos, rev4_qsos, amendment_count,
                 orig_parsed, new_parsed, stderr, exit_code, qrzVars>>

\* Loop body, elif i < len(rev0_qsos): QSO removed.
LoopRemoved ==
  /\ pc = "loop"
  /\ i < max_len
  /\ ~(i < Len(rev0_qsos) /\ i < Len(rev4_qsos))
  /\ i < Len(rev0_qsos)
  /\ amendment_count' = amendment_count + 1
  /\ stdout' = Append(stdout,
                 Block("amendment", "REMOVED", amendment_count + 1,
                       rev0_qsos[i + 1], NoRecord, <<>>, i))
  /\ i' = i + 1
  /\ UNCHANGED <<argv, fs, pc, rev0_qsos, rev4_qsos, orig_parsed, new_parsed,
                 stderr, exit_code, qrzVars>>

\* Loop body, elif i < len(rev4_qsos): QSO added.
LoopAdded ==
  /\ pc = "loop"
  /\ i < max_len
  /\ ~(i < Len(rev0_qsos) /\ i < Len(rev4_qsos))
  /\ ~(i < Len(rev0_qsos))
  /\ i < Len(rev4_qsos)
  /\ amendment_count' = amendment_count + 1
  /\ stdout' = Append(stdout,
                 Block("amendment", "ADDED", amendment_count + 1,
                       NoRecord, rev4_qsos[i + 1], <<>>, i))
  /\ i' = i + 1
  /\ UNCHANGED <<argv, fs, pc, rev0_qsos, rev4_qsos, orig_parsed, new_parsed,
                 stderr, exit_code, qrzVars>>

\* range(max_len) is exhausted: the total is printed and the process ends.
Total ==
  /\ pc = "loop"
  /\ i >= max_len
  /\ stdout' = Append(stdout, SimpleBlock("total", amendment_count))
  /\ exit_code' = 0
  /\ pc' = "done"
  /\ UNCHANGED <<argv, fs, rev0_qsos, rev4_qsos, amendment_count, i,
                 orig_parsed, new_parsed, stderr, qrzVars>>

Next ==
  \/ MainUsage
  \/ MainCall
  \/ Extract0
  \/ Extract4
  \/ Banner
  \/ LoopBoth
  \/ LoopRemoved
  \/ LoopAdded
  \/ Total

Spec == Init /\ [][Next]_vars

SpecExtract == InitExtract /\ [][Next]_vars

\* ------------------------------------------------------------------------
\* qrz_callsign_checker.py: QRZChecker.login and QRZChecker.lookup_callsign
\* ------------------------------------------------------------------------
\* str.upper() over the letters the model uses.
LowerLetters == <<"a", "l", "m", "p">>

UpperLetters == <<"A", "L", "M", "P">>

UpperChar(c) ==
  IF \E k \in 1..Len(LowerLetters) : LowerLetters[k] = c
  THEN UpperLetters[CHOOSE k \in 1..Len(LowerLetters) : LowerLetters[k] = c]
  ELSE c

Upper(s) == [k \in 1..Len(s) |-> UpperChar(s[k])]

\* [A-Z0-9]
IsUpperAlnum(c) == c \in {"A", "L", "M", "P", "0", "1", "2"}

\* Places where r'/[A-Z0-9]+$' matches: a '/' followed by one or more
\* [A-Z0-9] up to the end.
SuffixMatches(s) ==
  {p \in 1..(Len(s) - 1) :
     s[p] = "/" /\ \A q \in (p + 1)..Len(s) : IsUpperAlnum(s[q])}

\* re.sub(r'/[A-Z0-9]+$', '', callsign.upper().strip())
CleanCall(callsign) ==
  LET s == Strip(Upper(callsign))
  IN  IF SuffixMatches(s) = {} THEN s
      ELSE SubSeq(s, 1, (CHOOSE p \in SuffixMatches(s) :
                           \A q \in SuffixMatches(s) : p <= q) - 1)

Callsigns ==
  { <<"L", "A", "1">>,
    <<"l", "a", "1", "/", "p">>,
    <<" ", "L", "A", "/", "2", "/", "M", " ">> }

SessionKey == [key |-> "K"]

\* What the server answers to a login request: a <Key>, no <Key>, or the
\* request raises.
LoginOutcomes == {"key", "nokey", "raise"}

\* What the server answers to a lookup request.
LookupOutcomes == {"raise", "timeout", "found", "notfound"}

\* login(): True exactly when the response carries a key, which is stored.
LoginOk(outcome) == outcome = "key"

KeyAfterLogin(outcome) == IF LoginOk(outcome) THEN SessionKey ELSE session_key

FoundResult(callsign) == [callsign |-> CleanCall(callsign), found |-> TRUE, error |-> ""]

NotFoundResult(callsign) ==
  [callsign |-> CleanCall(callsign), found |-> FALSE, error |-> "Not found"]

\* The except branch: the callsign as passed, not cleaned.
ErrorResult(callsign) == [callsign |-> callsign, found |-> FALSE, error |-> "Lookup error"]

QrzOff ==
  /\ argv = <<"qrz_callsign_checker.py">>
  /\ fs = <<>>
  /\ pc = "done"
  /\ rev0_qsos = <<>>
  /\ rev4_qsos = <<>>
  /\ amendment_count = 0
  /\ i = 0
  /\ orig_parsed = Unset
  /\ new_parsed = Unset
  /\ stdout = <<>>
  /\ stderr = <<>>
  /\ exit_code = NotExited

InitQRZ == QrzOff /\ QrzIdle

\* A caller (main, or the batch loops) calls lookup_callsign(callsign).
LookupCall ==
  /\ qpc = "idle"
  /\ \E callsign \in Callsigns : stack' = <<callsign>>
  /\ qpc' = "enter"
  /\ result' = Unset
  /\ relogins' = 0
  /\ lookups' = 0
  /\ UNCHANGED <<session_key, diffVars>>

\* if not self.session_key: if not self.login(): return None
LookupFirstLogin ==
  /\ qpc = "enter"
  /\ session_key = None
  /\ \E outcome \in LoginOutcomes :
       /\ session_key' = KeyAfterLogin(outcome)
       /\ IF LoginOk(outcome)
          THEN qpc' = "lookup" /\ UNCHANGED result
          ELSE qpc' = "return" /\ result' = None
  /\ UNCHANGED <<stack, relogins, lookups, diffVars>>

\* self.session_key is set: straight to the request.
LookupHaveSession ==
  /\ qpc = "enter"
  /\ session_key # None
  /\ qpc' = "lookup"
  /\ UNCHANGED <<session_key, stack, result, relogins, lookups, diffVars>>

\* The lookup request and the handling of its response, up to the return
\* or to the 'Session Timeout' branch.
LookupRequest ==
  /\ qpc = "lookup"
  /\ lookups' = lookups + 1
  /\ \E outcome \in LookupOutcomes :
       LET callsign == stack[Len(stack)]
       IN  CASE outcome = "raise"    -> qpc' = "return" /\ result' = ErrorResult(callsign)
             [] outcome = "timeout"  -> qpc' = "relogin" /\ UNCHANGED result
             [] outcome = "found"    -> qpc' = "return" /\ result' = FoundResult(callsign)
             [] outcome = "notfound" -> qpc' = "return" /\ result' = NotFoundResult(callsign)
  /\ UNCHANGED <<session_key, stack, relogins, diffVars>>

\* Session expired: if self.login(): return self.lookup_callsign(callsign);
\* return None.  The nested call raises RecursionError at the interpreter's
\* limit, which the enclosing except turns into an error result.
LookupRelogin ==
  /\ qpc = "relogin"
  /\ relogins' = relogins + 1
  /\ \E outcome \in LoginOutcomes :
       /\ session_key' = KeyAfterLogin(outcome)
       /\ IF LoginOk(outcome)
          THEN IF Len(stack) < RecursionLimit
               THEN /\ stack' = Append(stack, stack[Len(stack)])
                    /\ qpc' = "enter"
                    /\ UNCHANGED result
               ELSE /\ qpc' = "return"
                    /\ result' = ErrorResult(stack[Len(stack)])
                    /\ UNCHANGED stack
          ELSE /\ qpc' = "return"
               /\ result' = None
               /\ UNCHANGED stack
  /\ UNCHANGED <<lookups, diffVars>>

\* A frame returns; an outer frame waiting at `return self.lookup_callsign`
\* returns the same value in turn.
LookupReturn ==
  /\ qpc = "return"
  /\ stack' = SubSeq(stack, 1, Len(stack) - 1)
  /\ qpc' = IF Len(stack) = 1 THEN "idle" ELSE "return"
  /\ UNCHANGED <<session_key, result, relogins, lookups, diffVars>>

NextQRZ ==
  \/ LookupCall
  \/ LookupFirstLogin
  \/ LookupHaveSession
  \/ LookupRequest
  \/ LookupRelogin
  \/ LookupReturn

SpecQRZ == InitQRZ /\ [][NextQRZ]_vars

TypeOK == pc \in {"main", "extract0", "extract4", "banner", "loop", "done"}

\* ========================================================================
\* Properties of the diff
\* ========================================================================
IsAmendment(b) == b.kind = "amendment"

\* The amendment blocks written so far, in output order.
Amendments == SelectSeq(stdout, IsAmendment)

WithLabel(label) == {k \in 1..Len(Amendments) : Amendments[k].label = label}

\* compare_qsos is past both extractions.
InDiff == pc = "loop" \/ (pc = "done" /\ exit_code = 0)

Finished == pc = "done" /\ exit_code = 0

m == Len(rev0_qsos)

n == Len(rev4_qsos)

\* Position idx (from 0) has a record on one side only, or two records whose
\* texts are unequal.
OneSided(idx) == (idx < m) # (idx < n)

TextsDiffer(idx) ==
  idx < m /\ idx < n /\ rev0_qsos[idx + 1][2] # rev4_qsos[idx + 1][2]

Differs(idx) == OneSided(idx) \/ TextsDiffer(idx)

EntriesAt(idx) == {k \in 1..Len(Amendments) : Amendments[k].index = idx}

\* C1: an amendment entry exists for index idx exactly when idx has been
\* processed and either one side only has a record there or both have one
\* and the texts are unequal; the counter counts exactly those positions, so
\* an identical position yields no entry and is not counted.
C1_EntryIffDiffers ==
  InDiff =>
    /\ \A idx \in 0..(Max(m, n) - 1) :
         (EntriesAt(idx) # {}) <=> (idx < i /\ Differs(idx))
    /\ amendment_count = Cardinality({idx \in 0..(i - 1) : Differs(idx)})

C1_Witness ==
  /\ Finished
  /\ \E idx \in 0..(i - 1) : idx < m /\ idx < n /\ ~Differs(idx)
  /\ \E idx \in 0..(i - 1) : TextsDiffer(idx) /\ EntriesAt(idx) # {}

\* ------------------------------------------------------------------------
\* Number of whitespace-separated tokens of a text, counted as the number
\* of places where a token starts.
NumTokens(t) ==
  Cardinality({q \in 1..Len(t) :
                 ~IsSpace(t[q]) /\ (q = 1 \/ IsSpace(t[q - 1]))})

\* The 12 field names in their fixed order.
TwelveFields ==
  <<"freq", "mode", "date", "time", "mycall", "rst_sent", "seq_sent",
    "my_region", "other_call", "rst_rcvd", "seq_rcvd", "other_region">>

\* Field numbers (1..12) at which two token lists differ; field k is token k,
\* which is element k + 1 of the token list.
DifferingFields(po, pn) == {k \in 1..12 : po[k + 1] # pn[k + 1]}

\* The j-th smallest element of a set of numbers.
Nth(S, j) == CHOOSE k \in S : Cardinality({d \in S : d < k}) = j - 1

BothParse(b) == NumTokens(b.orig[2]) >= 13 /\ NumTokens(b.new[2]) >= 13

\* C2: a Modified entry whose two texts have at least 13 tokens reports
\* exactly the (field, old, new) triples of the fields that differ, in the
\* fixed field order; a position whose texts differ only in spacing or past
\* the 13th token is still emitted and counted, with no changes.
C2_ChangesExact ==
  /\ \A k \in WithLabel("MODIFIED") :
       LET b  == Amendments[k]
           po == Split(b.orig[2])
           pn == Split(b.new[2])
           D  == DifferingFields(po, pn)
       IN  BothParse(b) =>
             /\ Len(b.changes) = Cardinality(D)
             /\ \A j \in 1..Len(b.changes) :
                  b.changes[j] =
                    <<TwelveFields[Nth(D, j)], po[Nth(D, j) + 1], pn[Nth(D, j) + 1]>>
  /\ InDiff =>
       \A idx \in 0..(i - 1) :
         (/\ TextsDiffer(idx)
          /\ NumTokens(rev0_qsos[idx + 1][2]) >= 13
          /\ NumTokens(rev4_qsos[idx + 1][2]) >= 13
          /\ DifferingFields(Split(rev0_qsos[idx + 1][2]),
                             Split(rev4_qsos[idx + 1][2])) = {})
         => /\ Cardinality(EntriesAt(idx)) = 1
            /\ \A k \in EntriesAt(idx) :
                 Amendments[k].label = "MODIFIED" /\ Amendments[k].changes = <<>>

C2_Witness ==
  /\ Finished
  /\ \E k \in WithLabel("MODIFIED") :
       BothParse(Amendments[k]) /\ Len(Amendments[k].changes) = 2
  /\ \E k \in WithLabel("MODIFIED") :
       BothParse(Amendments[k]) /\ Amendments[k].changes = <<>>

\* ------------------------------------------------------------------------
Texts(qsos) == [k \in 1..Len(qsos) |-> qsos[k][2]]

IsPrefix(s, t) == Len(s) <= Len(t) /\ SubSeq(t, 1, Len(s)) = s

\* C3: a finished run holds max(n - m, 0) Added and max(m - n, 0) Removed
\* entries, never both kinds; when one record sequence is the other followed
\* by k more records, those k entries are all there is.
C3_Tails ==
  Finished =>
    /\ Cardinality(WithLabel("ADDED")) = Max(n - m, 0)
    /\ Cardinality(WithLabel("REMOVED")) = Max(m - n, 0)
    /\ WithLabel("ADDED") = {} \/ WithLabel("REMOVED") = {}
    /\ IsPrefix(Texts(rev0_qsos), Texts(rev4_qsos)) =>
         /\ Cardinality(WithLabel("ADDED")) = n - m
         /\ WithLabel("MODIFIED") = {} /\ WithLabel("REMOVED") = {}
    /\ IsPrefix(Texts(rev4_qsos), Texts(rev0_qsos)) =>
         /\ Cardinality(WithLabel("REMOVED")) = m - n
         /\ WithLabel("MODIFIED") = {} /\ WithLabel("ADDED") = {}

C3_Witness ==
  /\ Finished
  /\ m >= 1 /\ n > m
  /\ IsPrefix(Texts(rev0_qsos), Texts(rev4_qsos))
  /\ Cardinality(WithLabel("ADDED")) = n - m
  /\ Len(Amendments) = n - m

\* ------------------------------------------------------------------------
\* C4: entries come out in increasing index order and are numbered
\* 1, 2, ..., c without gap or repeat; the running counter always equals the
\* number of entries written, every entry is Modified, Removed or Added, and
\* the total line reports c.
C4_Numbering ==
  /\ \A k \in 1..Len(Amendments) :
       /\ Amendments[k].num = k
       /\ Amendments[k].label \in {"MODIFIED", "REMOVED", "ADDED"}
       /\ k > 1 => Amendments[k - 1].index < Amendments[k].index
  /\ InDiff => amendment_count = Len(Amendments)
  /\ Finished =>
       /\ stdout[Len(stdout)].kind = "total"
       /\ stdout[Len(stdout)].num = Len(Amendments)
       /\ Len(Amendments) =
            Cardinality(WithLabel("MODIFIED")) + Cardinality(WithLabel("REMOVED"))
              + Cardinality(WithLabel("ADDED"))

C4_Witness ==
  /\ Finished
  /\ Len(Amendments) >= 1
  /\ \E k \in 1..Len(Amendments) : Amendments[k].index >= k
  /\ stdout[Len(stdout)].num = Len(Amendments)

\* ------------------------------------------------------------------------
\* Properties of extract_qsos
\* ------------------------------------------------------------------------
AllBlank(l, from, to) == \A q \in from..to : IsSpace(l[q])

MarkerAt(l, p) ==
  /\ p + 4 <= Len(l)
  /\ l[p + 1] = "Q" /\ l[p + 2] = "S" /\ l[p + 3] = "O" /\ l[p + 4] = ":"

\* The line as it stands in the file starts with 'QSO:'.
QualifiesRaw(l) == MarkerAt(l, 0)

\* The line starts with 'QSO:' after any leading whitespace.
QualifiesTrimmed(l) == \E p \in 0..Len(l) : AllBlank(l, 1, p) /\ MarkerAt(l, p)

\* t is l without its leading and trailing whitespace.
IsTrimOf(t, l) ==
  /\ t # <<>> => ~IsSpace(t[1]) /\ ~IsSpace(t[Len(t)])
  /\ \E a \in 0..Len(l) :
       /\ a + Len(t) <= Len(l)
       /\ SubSeq(l, a + 1, a + Len(t)) = t
       /\ AllBlank(l, 1, a)
       /\ AllBlank(l, a + Len(t) + 1, Len(l))

\* qsos holds exactly the qualifying lines of file, each with its 1-based
\* line number and its trimmed text, in file order.
ExtractedAs(qsos, file, Qualifies(_)) ==
  /\ \A k \in 1..Len(file) :
       (\E j \in 1..Len(qsos) : qsos[j][1] = k) <=> Qualifies(file[k])
  /\ \A j \in 1..Len(qsos) :
       /\ qsos[j][1] \in 1..Len(file)
       /\ IsTrimOf(qsos[j][2], file[qsos[j][1]])
       /\ j > 1 => qsos[j - 1][1] < qsos[j][1]

Extracted0 ==
  /\ Len(argv) = 3
  /\ argv[2] \in DOMAIN fs
  /\ pc \notin {"main", "extract0"}

Extracted4 ==
  /\ Extracted0
  /\ argv[3] \in DOMAIN fs
  /\ pc \notin {"extract4"}

\* C5 as stated: a line is selected exactly when, untrimmed, it starts with
\* 'QSO:'; it is stored with its line number, trimmed, in file order.
C5_RawPrefix ==
  /\ Extracted0 => ExtractedAs(rev0_qsos, fs[argv[2]], QualifiesRaw)
  /\ Extracted4 => ExtractedAs(rev4_qsos, fs[argv[3]], QualifiesRaw)

\* C5 amended: a line is selected exactly when it starts with 'QSO:' once its
\* leading and trailing whitespace is removed, so an indented 'QSO:' line is
\* selected; it is stored with its line number, trimmed, in file order.
C5_TrimmedPrefix ==
  /\ Extracted0 => ExtractedAs(rev0_qsos, fs[argv[2]], QualifiesTrimmed)
  /\ Extracted4 => ExtractedAs(rev4_qsos, fs[argv[3]], QualifiesTrimmed)

C5_Witness ==
  /\ Extracted4
  /\ \E j \in 1..Len(rev0_qsos) :
       /\ rev0_qsos[j][1] > j
       /\ IsSpace(fs[argv[2]][rev0_qsos[j][1]][1])
  /\ \E k \in 1..Len(fs[argv[3]]) : \A j \in 1..Len(rev4_qsos) : rev4_qsos[j][1] # k

\* ------------------------------------------------------------------------
\* Properties of parsing inside the diff
\* ------------------------------------------------------------------------
LastOf(S) == CHOOSE k \in S : \A d \in S : d <= k

EitherUnparsed(idx) ==
  \/ NumTokens(rev0_qsos[idx + 1][2]) < 13
  \/ NumTokens(rev4_qsos[idx + 1][2]) < 13

\* C6: parse_qso yields no result exactly for a text of fewer than 13 tokens;
\* a position whose texts differ and where a side does not parse gets exactly
\* one Modified entry, without changes, which is counted (see C4), and the
\* loop goes on to the last position.
C6_ParseFailure ==
  /\ orig_parsed # Unset =>
       /\ WithLabel("MODIFIED") # {}
       /\ LET b == Amendments[LastOf(WithLabel("MODIFIED"))]
          IN  /\ (orig_parsed = None) <=> (NumTokens(b.orig[2]) < 13)
              /\ (new_parsed = None) <=> (NumTokens(b.new[2]) < 13)
  /\ InDiff =>
       \A idx \in 0..(i - 1) :
         (TextsDiffer(idx) /\ EitherUnparsed(idx)) =>
           /\ Cardinality(EntriesAt(idx)) = 1
           /\ \A k \in EntriesAt(idx) :
                /\ Amendments[k].label = "MODIFIED"
                /\ Amendments[k].changes = <<>>
                /\ Amendments[k].num = Cardinality({d \in 0..idx : Differs(d)})
  /\ pc = "loop" => i <= Max(m, n)
  /\ Finished => i = Max(m, n)

C6_Witness ==
  /\ Finished
  /\ \E idx \in 0..(i - 2) :
       /\ TextsDiffer(idx) /\ EitherUnparsed(idx)
       /\ EntriesAt(idx) # {}
       /\ EntriesAt(idx + 1) # {}
  /\ new_parsed = None

\* Both texts have exactly 13 tokens and they differ at token t only
\* (token 0 is the record keyword).
OnlyTokenDiffers(orig_qso, new_qso, t) ==
  LET po == Split(orig_qso)
      pn == Split(new_qso)
  IN  /\ Len(po) = 13 /\ Len(pn) = 13
      /\ \A k \in 0..12 : (po[k + 1] # pn[k + 1]) <=> (k = t)

\* A position whose records differ at token t only yields exactly one
\* Modified entry with exactly one change, for the given field.
SingleChange(t, field) ==
  InDiff =>
    \A idx \in 0..(i - 1) :
      (/\ idx < m /\ idx < n
       /\ OnlyTokenDiffers(rev0_qsos[idx + 1][2], rev4_qsos[idx + 1][2], t))
      => /\ Cardinality(EntriesAt(idx)) = 1
         /\ \A k \in EntriesAt(idx) :
              /\ Amendments[k].label = "MODIFIED"
              /\ Len(Amendments[k].changes) = 1
              /\ Amendments[k].changes[1][1] = field

\* C7 as stated: two 13-token records differing in token 5 only yield one
\* Modified entry whose single change is for rst_sent.
C7_Token5IsRstSent == SingleChange(5, "rst_sent")

\* C7 amended: rst_sent is token 6 (token 5 is mycall); two 13-token records
\* differing in token 6 only yield one Modified entry whose single change is
\* for rst_sent.
C7_Token6IsRstSent == SingleChange(6, "rst_sent") /\ SingleChange(5, "mycall")

C7_Witness ==
  /\ Finished
  /\ \E idx \in 0..(i - 1) :
       /\ idx < m /\ idx < n
       /\ OnlyTokenDiffers(rev0_qsos[idx + 1][2], rev4_qsos[idx + 1][2], 6)
       /\ \E k \in EntriesAt(idx) : Amendments[k].changes[1][1] = "rst_sent"

\* ------------------------------------------------------------------------
\* Properties of the command line and of file errors
\* ------------------------------------------------------------------------
PathUnreadable == Len(argv) = 3 /\ (argv[2] \notin DOMAIN fs \/ argv[3] \notin DOMAIN fs)

\* C8: when an input path cannot be opened nothing is ever written to
\* standard output, the comparison never reaches its banner or its loop, and
\* the run ends with a non-zero status.
C8_AbortBeforeReport ==
  PathUnreadable =>
    /\ stdout = <<>>
    /\ pc \notin {"banner", "loop"}
    /\ pc = "done" => (exit_code # 0 /\ exit_code # NotExited /\ stderr # <<>>)

C8_Witness ==
  /\ PathUnreadable
  /\ pc = "done"
  /\ argv[3] \notin DOMAIN fs
  /\ rev0_qsos # <<>>

UsageIn(out) == \E k \in 1..Len(out) : out[k].kind = "usage"

NeverCompared ==
  /\ pc \in {"main", "done"}
  /\ rev0_qsos = <<>> /\ rev4_qsos = <<>>
  /\ \A k \in 1..Len(stdout) : stdout[k].kind = "usage"

\* C9 as stated: without exactly two arguments the usage text goes to
\* standard error, nothing goes to standard output, the comparison is never
\* called and the exit status is non-zero.
C9_UsageOnStderr ==
  Len(argv) # 3 =>
    /\ NeverCompared
    /\ pc = "done" =>
         /\ UsageIn(stderr)
         /\ stdout = <<>>
         /\ exit_code # 0 /\ exit_code # NotExited

\* C9 amended: the usage text goes to standard output and nothing goes to
\* standard error; the comparison is never called and the exit status is 1.
C9_UsageOnStdout ==
  Len(argv) # 3 =>
    /\ NeverCompared
    /\ pc = "done" =>
         /\ UsageIn(stdout) /\ Len(stdout) = 1
         /\ stderr = <<>>
         /\ exit_code = 1

C9_Witness ==
  /\ Len(argv) > 3
  /\ pc = "done"
  /\ UsageIn(stdout)

\* ------------------------------------------------------------------------
\* Properties of QRZChecker.lookup_callsign
\* ------------------------------------------------------------------------
\* C10: one top-level lookup_callsign call makes at most one re-login and
\* at most two lookup requests.
C10_RetryOnce == relogins <= 1 /\ lookups <= 2

====
